---- MODULE Spec2Model ----
(***************************************************************************)
(* Model of the pi digit service of src/src/index.ts: the /pi range        *)
(* endpoint (getPiDigits and its handler) and the prefetching client       *)
(* script it serves (fetchMoreDigits, startPrefetching,                    *)
(* addDigitsToDisplay, the timers).                                        *)
(*                                                                         *)
(* Offsets are zero-based as in the source; TLA+ sequences are one-based,  *)
(* so the character at offset k of a file f is f[k+1].                     *)
(* chunkSize and prefetchThreshold are the client's constants scaled down  *)
(* (100000 and 10 in the source) so that the stored file can be a short    *)
(* sequence of characters; MAX_RANGE keeps its value.                      *)
(***************************************************************************)
EXTENDS Integers, Sequences, FiniteSets, TLC

\* ------------------------------------------------------------------------
\* Bounds of the model and constants of the program
\* ------------------------------------------------------------------------

\* longest stored file considered (characters, including the leading "3.")
MaxFileLen == 6

\* const chunkSize = 100000 (scaled)
chunkSize == 2

\* const prefetchThreshold = 10 (scaled)
prefetchThreshold == 2

\* the literal 100_000 of getPiDigits and of the /pi handler
MAX_RANGE == 100000

\* the first characters of pi-billion.txt
PiText == <<"3", ".", "1", "4", "1", "5", "9", "2", "6", "5", "3", "5">>

\* the bucket holds no object
Absent == [present |-> FALSE, text |-> <<>>]

\* the bucket holds pi-billion.txt with the given characters
File(t) == [present |-> TRUE, text |-> t]

\* the contents the bucket may hold: no object, or a file of 0..MaxFileLen characters
Files == {Absent} \cup {File(SubSeq(PiText, 1, n)) : n \in 0..MaxFileLen}

\* query parameters: not given, given empty ("?start="), given as a decimal
\* integer ("12", "-1"), given as a decimal integer followed by other
\* characters ("12abc", "1.5"), given as text that starts with no number
Missing == [kind |-> "missing", val |-> 0]
Empty == [kind |-> "empty", val |-> 0]
Num(n) == [kind |-> "num", val |-> n]
Prefixed(n) == [kind |-> "prefixed", val |-> n]
Garbage == [kind |-> "garbage", val |-> 0]

Min(a, b) == IF a <= b THEN a ELSE b
Max(a, b) == IF a >= b THEN a ELSE b

\* ------------------------------------------------------------------------
\* The state: the bucket, the client script's variables, history
\* ------------------------------------------------------------------------

VARIABLES
    object,             \* what the bucket holds (never changes)
    started,            \* the script's top-level statements have run
    initialTimer,       \* the setTimeout(.., 50) of the initial display is pending
    currentPosition,    \* let currentPosition
    hasMoreDigits,      \* let hasMoreDigits
    prefetchedDigits,   \* let prefetchedDigits: the buffer
    nextFetchPosition,  \* let nextFetchPosition
    prefetchQueue,      \* let prefetchQueue: the promises of the latest batch, by position
    textContent,        \* piDigitsElement.textContent
    batches,            \* the Promise.all groups not yet settled: per promise its
                        \* position and its result (Pending, or the length returned)
    startTimer,         \* pending setTimeout(startPrefetching, 0) callbacks
    issued,             \* history: positions of every fetch task issued so far
    reissued,           \* history: positions issued over a range already issued
    endSeen,            \* history: a task got a short or empty read of the object
    notFoundSeen,       \* history: a task was answered 404 for the absent object
    unretried,          \* history: positions whose task failed transiently and
                        \* that were not requested again since
    resp,               \* history: the last request served by /pi and its response
    loader,             \* the script variables of the loadMoreDigits client
    poller              \* the script variables of the appendDigits client

vars == <<object, started, initialTimer, currentPosition, hasMoreDigits,
          prefetchedDigits, nextFetchPosition, prefetchQueue, textContent,
          batches, startTimer, issued, reissued, endSeen, notFoundSeen,
          unretried, resp, loader, poller>>

\* ------------------------------------------------------------------------
\* The range service: getPiDigits and the /pi handler
\* ------------------------------------------------------------------------

\* a JavaScript value that is null, and one that is a string
Null == [null |-> TRUE, text |-> <<>>]
Str(t) == [null |-> FALSE, text |-> t]

\* env.PI.get("pi-billion.txt", {range: {offset, length}}) and object.text():
\* throws on a store error, null when the object is absent, otherwise the
\* characters of [offset, offset+length) that exist
StoreGet(obj, ioError, offset, length) ==
    IF ioError THEN [threw |-> TRUE, value |-> Null]
    ELSE IF ~obj.present THEN [threw |-> FALSE, value |-> Null]
    ELSE [threw |-> FALSE,
          value |-> Str(SubSeq(obj.text, offset + 1, Min(offset + length, Len(obj.text))))]

\* const safeLength = Math.min(length, 100_000)
SafeLength(length) == Min(length, MAX_RANGE)

\* getPiDigits(env, start, length): the slice, or null when the object is
\* absent or the read threw
getPiDigits(obj, ioError, start, length) ==
    LET safeLength == SafeLength(length)
        got == StoreGet(obj, ioError, start, safeLength)
    IN  IF got.threw THEN Null ELSE got.value

\* the store accesses of one getPiDigits call that read the whole object
\* (env.PI.get without a range)
WholeObjectRead(start, length) ==
    <<[offset |-> 0, length |-> MaxFileLen + MAX_RANGE]>>

\* the store accesses of one getPiDigits(env, start, length) call: the
\* single env.PI.get of lines 17-22, with its range
StoreAccesses(start, length) ==
    <<[offset |-> start, length |-> SafeLength(length)]>>

\* parseInt(c.req.query(name) || dflt, 10): a missing or empty parameter
\* takes the default, parseInt reads the leading integer of the text and
\* ignores what follows it, and gives NaN when there is no leading integer
ParseQuery(q, dflt) ==
    IF q.kind \in {"missing", "empty"} THEN [nan |-> FALSE, val |-> dflt]
    ELSE IF q.kind = "garbage" THEN [nan |-> TRUE, val |-> 0]
    ELSE [nan |-> FALSE, val |-> q.val]

\* a test that only the empty string passes: digits === ""
FalsyEmptyStringOnly(digits) == ~digits.null /\ digits.text = <<>>

\* `!digits` of the handler: null and the empty string are both falsy
Falsy(digits) == digits.null \/ digits.text = <<>>

\* const start = parseInt(c.req.query("start") || "0", 10)
StartOf(startQ) == ParseQuery(startQ, 0)

\* const length = parseInt(c.req.query("length") || "10", 10)
LengthOf(lengthQ) == ParseQuery(lengthQ, 10)

\* the test of line 46
InvalidQuery(start, length) ==
    start.nan \/ length.nan \/ start.val < 0 \/ length.val > MAX_RANGE

\* app.get("/pi"): the response to GET /pi?start=..&length=..; the body
\* is a sequence of characters (one element holding the message, for the
\* two error texts); reads lists the accesses to the object store and
\* storeReads counts them
PiHandler(obj, ioError, startQ, lengthQ) ==
    LET start == StartOf(startQ)
        length == LengthOf(lengthQ)
    IN  IF InvalidQuery(start, length)
        THEN [status |-> 400, body |-> <<"Invalid query">>,
              storeReads |-> 0, reads |-> <<>>]
        ELSE LET digits == getPiDigits(obj, ioError, start.val, length.val)
                 reads == StoreAccesses(start.val, length.val)
             IN  IF Falsy(digits)
                 THEN [status |-> 404, body |-> <<"pi file not found">>,
                       storeReads |-> Len(reads), reads |-> reads]
                 ELSE [status |-> 200, body |-> digits.text,
                       storeReads |-> Len(reads), reads |-> reads]

\* ------------------------------------------------------------------------
\* The client script served by app.get("/")
\* ------------------------------------------------------------------------

\* a promise of prefetchQueue that has not settled
Pending == -1

\* the script's variables, as one value the functions below transform
Client ==
    [currentPosition |-> currentPosition, hasMoreDigits |-> hasMoreDigits,
     prefetchedDigits |-> prefetchedDigits, nextFetchPosition |-> nextFetchPosition,
     prefetchQueue |-> prefetchQueue, textContent |-> textContent,
     batches |-> batches, startTimer |-> startTimer,
     issued |-> issued, reissued |-> reissued, unretried |-> unretried]

\* the script's variables become those of c
Becomes(c) ==
    /\ currentPosition' = c.currentPosition
    /\ hasMoreDigits' = c.hasMoreDigits
    /\ prefetchedDigits' = c.prefetchedDigits
    /\ nextFetchPosition' = c.nextFetchPosition
    /\ prefetchQueue' = c.prefetchQueue
    /\ textContent' = c.textContent
    /\ batches' = c.batches
    /\ startTimer' = c.startTimer
    /\ issued' = c.issued
    /\ reissued' = c.reissued
    /\ unretried' = c.unretried

\* the byte ranges [p, p+chunkSize) and [q, q+chunkSize) share an offset
Overlap(p, q) == p < q + chunkSize /\ q < p + chunkSize

\* const fetchPosition = nextFetchPosition + (i * chunkSize), i = 0..prefetchThreshold-1
FetchPosition(c, i) == c.nextFetchPosition + (i * chunkSize)

\* startPrefetching(), lines 139-156: the queue is cleared and
\* prefetchThreshold fetches are issued; their Promise.all is a new batch
startPrefetching(c) ==
    LET positions == [k \in 1..prefetchThreshold |-> FetchPosition(c, k - 1)]
        new == {positions[k] : k \in 1..prefetchThreshold}
    IN  [c EXCEPT
            !.prefetchQueue = positions,
            !.batches = Append(@, [k \in 1..prefetchThreshold |->
                                      [pos |-> positions[k], res |-> Pending]]),
            !.issued = @ \cup new,
            !.reissued = @ \cup {p \in new : \E q \in c.issued : Overlap(p, q)},
            !.unretried = @ \ new]

\* the refill condition without its test of the queue
RefillNeededIgnoringQueue(c) ==
    /\ 2 * Len(c.prefetchedDigits) < chunkSize * prefetchThreshold
    /\ c.hasMoreDigits

\* the condition of lines 183 and 226: the buffer is below half the target,
\* the queue is empty and more digits are expected
\* (chunkSize * (prefetchThreshold / 2) is a float product in the source)
RefillNeeded(c) ==
    /\ 2 * Len(c.prefetchedDigits) < chunkSize * prefetchThreshold
    /\ Len(c.prefetchQueue) = 0
    /\ c.hasMoreDigits

\* the drain that starts a batch when it finds the buffer empty
addDigitsFetchingWhenEmpty(c) ==
    IF Len(c.prefetchedDigits) > 0
    THEN LET displayChunkSize == Min(chunkSize, Len(c.prefetchedDigits))
             digitsToAdd == SubSeq(c.prefetchedDigits, 1, displayChunkSize)
             d == [c EXCEPT
                     !.prefetchedDigits = SubSeq(@, displayChunkSize + 1, Len(@)),
                     !.textContent = @ \o digitsToAdd,
                     !.currentPosition = @ + Len(digitsToAdd)]
         IN  IF RefillNeeded(d) THEN startPrefetching(d) ELSE d
    ELSE startPrefetching(c)

\* the drain with currentPosition advanced by chunkSize, whatever was taken
addDigitsAdvancingByChunk(c) ==
    IF Len(c.prefetchedDigits) > 0
    THEN LET displayChunkSize == Min(chunkSize, Len(c.prefetchedDigits))
             digitsToAdd == SubSeq(c.prefetchedDigits, 1, displayChunkSize)
             d == [c EXCEPT
                     !.prefetchedDigits = SubSeq(@, displayChunkSize + 1, Len(@)),
                     !.textContent = @ \o digitsToAdd,
                     !.currentPosition = @ + chunkSize]
         IN  IF RefillNeeded(d) THEN startPrefetching(d) ELSE d
    ELSE c

\* addDigitsToDisplay(), lines 172-187
addDigitsToDisplay(c) ==
    IF Len(c.prefetchedDigits) > 0
    THEN LET displayChunkSize == Min(chunkSize, Len(c.prefetchedDigits))
             digitsToAdd == SubSeq(c.prefetchedDigits, 1, displayChunkSize)
             d == [c EXCEPT
                     !.prefetchedDigits = SubSeq(@, displayChunkSize + 1, Len(@)),
                     !.textContent = @ \o digitsToAdd,
                     !.currentPosition = @ + Len(digitsToAdd)]
         IN  IF RefillNeeded(d) THEN startPrefetching(d) ELSE d
    ELSE c

\* `/pi?start=${position}&length=${length}`: the numbers in decimal
QueryOf(n) == Num(n)

\* fetchMoreDigits(position, length), lines 116-136, given how the request
\* went: the fetch threw (netError), or the endpoint answered r.
\* digits is the string returned; ended tells that hasMoreDigits was cleared
fetchMoreDigits(netError, r) ==
    IF netError THEN [digits |-> <<>>, ended |-> FALSE]
    ELSE IF r.status # 200 THEN [digits |-> <<>>, ended |-> FALSE]
    ELSE IF Len(r.body) = 0 THEN [digits |-> <<>>, ended |-> TRUE]
    ELSE [digits |-> r.body, ended |-> FALSE]

\* every promise of the batch has settled
Settled(batch) == \A k \in 1..Len(batch) : batch[k].res # Pending

\* the total taken from the last promise alone: results[results.length - 1]
LastResult(batch) == IF batch = <<>> THEN 0 ELSE batch[Len(batch)].res

\* the total taken from what was requested: results.length * chunkSize
SumRequested(batch) == Len(batch) * chunkSize

\* results.reduce((sum, length) => sum + length, 0)
RECURSIVE SumResults(_)
SumResults(batch) ==
    IF batch = <<>> THEN 0 ELSE batch[1].res + SumResults(Tail(batch))

\* the position assigned instead of advanced: nextFetchPosition = totalFetched
AssignedPosition(position, totalFetched) == totalFetched

\* nextFetchPosition += totalFetched
AdvancedPosition(position, totalFetched) == position + totalFetched

\* the condition of line 165: more digits are expected and the buffer is
\* below its target
ContinuePrefetching(c) ==
    /\ c.hasMoreDigits
    /\ Len(c.prefetchedDigits) < chunkSize * prefetchThreshold

\* the sequence s without its b-th element
RemoveAt(s, b) == SubSeq(s, 1, b - 1) \o SubSeq(s, b + 1, Len(s))

\* the Promise.all(..).then callback of lines 159-168, for batch number b
batchDone(c, b) ==
    LET totalFetched == SumResults(c.batches[b])
        d == [c EXCEPT
                !.nextFetchPosition = AdvancedPosition(@, totalFetched),
                !.batches = RemoveAt(@, b)]
    IN  IF ContinuePrefetching(d) THEN [d EXCEPT !.startTimer = @ + 1] ELSE d

\* the .then callback of lines 147-153 for promise k of batch b, whose
\* fetchMoreDigits returned f; the batch callback follows in the same
\* turn of the event loop when this was the last promise to settle
fetchSettled(c, b, k, f) ==
    LET d == [c EXCEPT
                !.hasMoreDigits = IF f.ended THEN FALSE ELSE @,
                !.prefetchedDigits = IF Len(f.digits) > 0 THEN @ \o f.digits ELSE @,
                !.batches[b][k].res = Len(f.digits)]
    IN  IF Settled(d.batches[b]) THEN batchDone(d, b) ELSE d

\* the read of [pos, pos+chunkSize) reaches the end of the stored object
AtEndOfObject(pos) == object.present /\ pos + chunkSize > Len(object.text)

\* no request was served yet
NoResponse ==
    [served |-> FALSE, startQ |-> Missing, lengthQ |-> Missing,
     start |-> 0, length |-> 0, ioError |-> FALSE,
     status |-> 0, body |-> <<>>, storeReads |-> 0, reads |-> <<>>]

\* the request GET /pi?start=startQ&length=lengthQ, whether the store
\* threw while it was served, and the response r it got; start and length
\* are the numbers the handler parsed
Response(startQ, lengthQ, ioError, r) ==
    [served |-> TRUE, startQ |-> startQ, lengthQ |-> lengthQ,
     start |-> StartOf(startQ).val, length |-> LengthOf(lengthQ).val,
     ioError |-> ioError,
     status |-> r.status, body |-> r.body, storeReads |-> r.storeReads,
     reads |-> r.reads]

\* ------------------------------------------------------------------------
\* The serialized clients: loadMoreDigits (src/unnamed/part_002, served
\* by its /pi) and appendDigits (src/src/index.tsx, served by /api/pi)
\* ------------------------------------------------------------------------

\* const safeLength = Math.min(length, 1000), in both getPiDigits
safeLimit == 1000

\* length > 10_000, in both handlers
maxLength == 10000

\* getPiDigits(c.env, 0, 500) of the root route (scaled from 500)
initialLength == 4

\* const chunkSize = 200 of the appendDigits client (scaled from 200)
pollChunkSize == 2

\* setTimeout(appendDigits, 1000)
nextDelay == 1000

\* setTimeout(appendDigits, 3000)
retryDelay == 3000

\* const chunkSize = 1000 of the loadMoreDigits client (scaled from 1000)
loadChunkSize == 4

\* i % 5 === 0 of formatDigits (scaled from 5)
groupSize == 2

\* the hardcoded digits the root route falls back to (scaled from the
\* 102 characters "3.14159...")
FallbackDigits == SubSeq(PiText, 1, 1)

\* getPiDigits(env, start, length) of src/src/index.tsx (the text of
\* src/unnamed/part_002, lines 110-137, is the same)
getPiDigitsSafe(obj, ioError, start, length) ==
    LET safeLength == Min(length, safeLimit)
        got == StoreGet(obj, ioError, start, safeLength)
    IN  IF got.threw THEN Null ELSE got.value

\* isNaN(start) || isNaN(length) || start < 0 || length > 10_000
InvalidApiQuery(start, length) ==
    start.nan \/ length.nan \/ start.val < 0 \/ length.val > maxLength

\* app.get("/api/pi") of src/src/index.tsx
ApiPiHandler(obj, ioError, startQ, lengthQ) ==
    LET start == ParseQuery(startQ, 0)
        length == ParseQuery(lengthQ, 500)
    IN  IF InvalidApiQuery(start, length)
        THEN [status |-> 400, body |-> <<"Invalid query">>]
        ELSE LET digits == getPiDigitsSafe(obj, ioError, start.val, length.val)
             IN  IF Falsy(digits)
                 THEN [status |-> 404, body |-> <<"pi file not found">>]
                 ELSE [status |-> 200, body |-> digits.text]

\* app.get("/pi") of src/unnamed/part_002
PiHandlerPart2(obj, ioError, startQ, lengthQ) ==
    LET start == ParseQuery(startQ, 0)
        length == ParseQuery(lengthQ, 10)
    IN  IF InvalidApiQuery(start, length)
        THEN [status |-> 400, body |-> <<"Invalid query">>]
        ELSE LET digits == getPiDigitsSafe(obj, ioError, start.val, length.val)
             IN  IF Falsy(digits)
                 THEN [status |-> 404, body |-> <<"pi file not found">>]
                 ELSE [status |-> 200, body |-> digits.text]

\* the loop of formatDigits from index i on: a space goes before every
\* character whose index is a positive multiple of the group size
RECURSIVE formatFrom(_, _)
formatFrom(digits, i) ==
    IF i >= Len(digits) THEN <<>>
    ELSE (IF i > 0 /\ i % groupSize = 0 THEN <<" ">> ELSE <<>>)
         \o <<digits[i + 1]>> \o formatFrom(digits, i + 1)

\* formatDigits(digits), part_002 lines 226-235
formatDigits(digits) == formatFrom(digits, 0)

\* the loadMoreDigits client before its script ran
LoaderInit ==
    [loaded |-> FALSE, currentPosition |-> 1, isLoading |-> FALSE,
     hasMoreDigits |-> TRUE, innerHTML |-> <<>>, fetches |-> <<>>]

\* loadMoreDigits() up to its await of fetch, lines 238-245: fetches
\* holds the offsets of the requests in flight
loadMoreDigits(c) ==
    IF c.isLoading \/ ~c.hasMoreDigits THEN c
    ELSE [c EXCEPT !.isLoading = TRUE,
                   !.fetches = Append(@, c.currentPosition)]

\* the rest of loadMoreDigits with isLoading reset after the appended
\* digits only, not in a finally block
loadSettledWithoutFinally(c, k, netError, r) ==
    LET d == [c EXCEPT !.fetches = RemoveAt(@, k)]
    IN  IF netError \/ r.status # 200 THEN d
        ELSE IF Len(r.body) = 0 THEN [d EXCEPT !.hasMoreDigits = FALSE]
        ELSE [d EXCEPT !.innerHTML = @ \o formatDigits(r.body),
                       !.currentPosition = @ + Len(r.body),
                       !.isLoading = FALSE]

\* the rest of loadMoreDigits, lines 245-267, once request k came back:
\* the fetch threw (netError) or /pi answered r
loadSettled(c, k, netError, r) ==
    LET d == [c EXCEPT !.fetches = RemoveAt(@, k)]
        e == IF netError \/ r.status # 200 THEN d
             ELSE IF Len(r.body) = 0 THEN [d EXCEPT !.hasMoreDigits = FALSE]
             ELSE [d EXCEPT !.innerHTML = @ \o formatDigits(r.body),
                            !.currentPosition = @ + Len(r.body)]
    IN  [e EXCEPT !.isLoading = FALSE]

\* checkScroll() of part_002, lines 271-279
checkScrollPart2(c, nearBottom) ==
    IF nearBottom /\ ~c.isLoading THEN loadMoreDigits(c) ELSE c

\* the setInterval callback of part_002, lines 288-292
intervalPart2(c, pageShort) ==
    IF pageShort /\ ~c.isLoading /\ c.hasMoreDigits THEN loadMoreDigits(c) ELSE c

\* the appendDigits client before its page was served: rendered tells that
\* the page was served, running that its script runs; outcome and
\* lastOffset are history: how the last request ended, and its offset
PollerInit ==
    [rendered |-> FALSE, running |-> FALSE, start |-> 0, currentPosition |-> 0,
     isLoading |-> FALSE, textContent |-> <<>>, timers |-> <<>>,
     fetches |-> <<>>, outcome |-> "none", lastOffset |-> 0]

\* piDigits of the root route, lines 68-72: the first digits of the
\* object, or the hardcoded digits when none could be read
RootHandler(obj, ioError) ==
    LET got == getPiDigitsSafe(obj, ioError, 0, initialLength)
        initialDigits == IF Falsy(got) THEN <<>> ELSE got.text
    IN  IF initialDigits = <<>> THEN FallbackDigits ELSE initialDigits

\* the page c.html(..) of lines 74-186 as served: piDigits is its text
\* and piDigits.length is written into its script as the initial
\* currentPosition (line 128); start keeps that offset
RootPage(piDigits) ==
    [PollerInit EXCEPT !.rendered = TRUE,
                       !.start = Len(piDigits),
                       !.currentPosition = Len(piDigits),
                       !.textContent = piDigits]

\* the script of the page run by the browser, lines 125-182: timers holds
\* the delays of the pending setTimeout(appendDigits, ..)
pollerScript(page) ==
    [page EXCEPT !.running = TRUE, !.timers = <<nextDelay>>]

\* fetchMorePiDigits(), lines 132-150, given how the request went
fetchMorePiDigits(netError, r) ==
    IF netError \/ r.status # 200 THEN <<>> ELSE r.body

\* appendDigits() up to its await, lines 152-157
appendDigits(c) ==
    IF c.isLoading THEN c
    ELSE [c EXCEPT !.isLoading = TRUE,
                   !.fetches = Append(@, c.currentPosition)]

\* the rest of appendDigits, lines 157-174, once request k came back and
\* fetchMorePiDigits returned digits
appendSettled(c, k, digits) ==
    LET d == [c EXCEPT !.fetches = RemoveAt(@, k)]
        e == IF Len(digits) > 0
             THEN [d EXCEPT !.textContent = @ \o digits,
                            !.currentPosition = @ + Len(digits),
                            !.timers = Append(@, nextDelay)]
             ELSE [d EXCEPT !.timers = Append(@, retryDelay)]
    IN  [e EXCEPT !.isLoading = FALSE]

\* how a request ended, as the client sees it
OutcomeOf(netError, r) ==
    IF netError \/ r.status # 200 THEN "error"
    ELSE IF Len(r.body) = 0 THEN "empty" ELSE "data"

\* ------------------------------------------------------------------------
\* The state machine
\* ------------------------------------------------------------------------

Init ==
    /\ object \in Files
    /\ started = FALSE
    /\ initialTimer = FALSE
    /\ currentPosition = 1
    /\ hasMoreDigits = TRUE
    /\ prefetchedDigits = <<>>
    /\ nextFetchPosition = 1
    /\ prefetchQueue = <<>>
    /\ textContent = <<"3", ".">>
    /\ batches = <<>>
    /\ startTimer = 0
    /\ issued = {}
    /\ reissued = {}
    /\ endSeen = FALSE
    /\ notFoundSeen = FALSE
    /\ unretried = {}
    /\ resp = NoResponse
    /\ loader = LoaderInit
    /\ poller = PollerInit

\* the top-level statements of the script, lines 200-229: the first batch
\* is started and the timers are armed
Start ==
    /\ ~started
    /\ started' = TRUE
    /\ initialTimer' = TRUE
    /\ Becomes(startPrefetching(Client))
    /\ UNCHANGED <<object, endSeen, notFoundSeen, resp, loader, poller>>

\* the setTimeout callback of lines 204-206
InitialDisplay ==
    /\ started /\ initialTimer
    /\ initialTimer' = FALSE
    /\ Becomes(addDigitsToDisplay(Client))
    /\ UNCHANGED <<object, started, endSeen, notFoundSeen, resp, loader, poller>>

\* checkScroll(), lines 190-198, run by the throttled scroll listener
CheckScroll ==
    /\ started
    /\ \E nearBottom \in BOOLEAN :
          Becomes(IF nearBottom THEN addDigitsToDisplay(Client) ELSE Client)
    /\ UNCHANGED <<object, started, initialTimer, endSeen, notFoundSeen, resp, loader, poller>>

\* the setInterval callback of lines 220-229
IntervalTick ==
    /\ started
    /\ \E pageShort \in BOOLEAN :
          LET c == IF pageShort /\ Len(prefetchedDigits) > 0
                   THEN addDigitsToDisplay(Client) ELSE Client
          IN  Becomes(IF RefillNeeded(c) THEN startPrefetching(c) ELSE c)
    /\ UNCHANGED <<object, started, initialTimer, endSeen, notFoundSeen, resp, loader, poller>>

\* a setTimeout(startPrefetching, 0) of line 166 fires
StartTimerFire ==
    /\ startTimer > 0
    /\ Becomes(startPrefetching([Client EXCEPT !.startTimer = @ - 1]))
    /\ UNCHANGED <<object, started, initialTimer, endSeen, notFoundSeen, resp, loader, poller>>

\* the fetch of promise k of batch b comes back, in one of the given
\* ways: the network failed ("net"), the object store threw while /pi
\* served it ("io"), or /pi served it from the store ("ok")
FetchCompleteWith(outcomes) ==
    \E b \in 1..Len(batches) : \E k \in 1..prefetchThreshold :
    \E outcome \in outcomes :
        /\ batches[b][k].res = Pending
        /\ \E pos \in {batches[b][k].pos} :
           \E r \in {PiHandler(object, outcome = "io", QueryOf(pos), QueryOf(chunkSize))} :
           \E c \in {fetchSettled(Client, b, k, fetchMoreDigits(outcome = "net", r))} :
              /\ Becomes([c EXCEPT !.unretried = IF outcome \in {"io", "net"}
                                                 THEN @ \cup {pos} ELSE @])
              /\ resp' = IF outcome = "net" THEN resp
                         ELSE Response(QueryOf(pos), QueryOf(chunkSize), outcome = "io", r)
              /\ endSeen' = (endSeen \/ (outcome = "ok" /\ AtEndOfObject(pos)))
              /\ notFoundSeen' = (notFoundSeen \/
                                    (outcome = "ok" /\ ~object.present /\ r.status = 404))
        /\ UNCHANGED <<object, started, initialTimer, loader, poller>>

\* the values of the start parameter the requests to /pi are drawn from
StartQueries ==
    {Missing, Empty, Garbage, Prefixed(1)} \cup
    {Num(n) : n \in {-1, 1, 3, MaxFileLen}}

\* the values of the length parameter the requests to /pi are drawn from
LengthQueries ==
    {Missing, Garbage} \cup
    {Num(n) : n \in {-1, 0, 2, MAX_RANGE, MAX_RANGE + 1}}

\* a fetch comes back, in any way
FetchComplete == FetchCompleteWith({"ok", "io", "net"})

\* a fetch comes back served by /pi from the store
FetchSucceeds == FetchCompleteWith({"ok"})

\* a demand signal: checkScroll finds the page near its bottom and drains
Demand ==
    /\ started
    /\ Becomes(addDigitsToDisplay(Client))
    /\ UNCHANGED <<object, started, initialTimer, endSeen, notFoundSeen, resp, loader, poller>>

\* any HTTP client sends GET /pi?start=..&length=.. and /pi answers it;
\* the store may throw when it is read (a request that is rejected
\* before the read does not observe the store)
Request ==
    /\ \E startQ \in StartQueries : \E lengthQ \in LengthQueries :
       \E ioError \in IF InvalidQuery(StartOf(startQ), LengthOf(lengthQ))
                      THEN {FALSE} ELSE BOOLEAN :
          resp' = Response(startQ, lengthQ, ioError,
                           PiHandler(object, ioError, startQ, lengthQ))
    /\ UNCHANGED <<object, started, initialTimer, currentPosition, hasMoreDigits,
                   prefetchedDigits, nextFetchPosition, prefetchQueue, textContent,
                   batches, startTimer, issued, reissued, endSeen, notFoundSeen,
                   unretried, loader, poller>>

\* the variables of the prefetching client and of the exchanges with /pi
prefetchVars ==
    <<started, initialTimer, currentPosition, hasMoreDigits, prefetchedDigits,
      nextFetchPosition, prefetchQueue, textContent, batches, startTimer,
      issued, reissued, endSeen, notFoundSeen, unretried, resp>>

\* the top-level statements of the part_002 script, lines 282-292: the
\* initial loadMoreDigits(), the scroll listener and the interval
LoaderStart ==
    /\ ~loader.loaded
    /\ loader' = loadMoreDigits([loader EXCEPT !.loaded = TRUE])
    /\ UNCHANGED <<object, prefetchVars, poller>>

\* a scroll event runs checkScroll
LoaderScroll ==
    /\ loader.loaded
    /\ \E nearBottom \in BOOLEAN : loader' = checkScrollPart2(loader, nearBottom)
    /\ UNCHANGED <<object, prefetchVars, poller>>

\* the interval of part_002 ticks
LoaderTick ==
    /\ loader.loaded
    /\ \E pageShort \in BOOLEAN : loader' = intervalPart2(loader, pageShort)
    /\ UNCHANGED <<object, prefetchVars, poller>>

\* request k of the loadMoreDigits client comes back
LoaderFetchComplete ==
    /\ \E k \in 1..Len(loader.fetches) : \E outcome \in {"ok", "io", "net"} :
          LET r == PiHandlerPart2(object, outcome = "io",
                                  QueryOf(loader.fetches[k]), QueryOf(loadChunkSize))
          IN  loader' = loadSettled(loader, k, outcome = "net", r)
    /\ UNCHANGED <<object, prefetchVars, poller>>

\* the root route of src/src/index.tsx serves the page (the store may
\* throw) and the browser runs its script. The script is a string child
\* of a JSX <script> element, and what the JSX renderer (hono/jsx, not
\* part of the sources) makes of its quotes and angle brackets decides
\* whether the browser can parse it: both outcomes are kept
PageLoad ==
    /\ ~poller.rendered
    /\ \E ioError \in BOOLEAN : \E parses \in BOOLEAN :
       \E page \in {RootPage(RootHandler(object, ioError))} :
          poller' = IF parses THEN pollerScript(page) ELSE page
    /\ UNCHANGED <<object, prefetchVars, loader>>

\* the pending timer k fires and runs appendDigits
PollTimerFire ==
    /\ \E k \in 1..Len(poller.timers) :
          poller' = appendDigits([poller EXCEPT !.timers = RemoveAt(@, k)])
    /\ UNCHANGED <<object, prefetchVars, loader>>

\* request k of the appendDigits client comes back
PollFetchComplete ==
    /\ \E k \in 1..Len(poller.fetches) : \E outcome \in {"ok", "io", "net"} :
       \E pos \in {poller.fetches[k]} :
       \E r \in {ApiPiHandler(object, outcome = "io", QueryOf(pos), QueryOf(pollChunkSize))} :
       \E c \in {appendSettled(poller, k, fetchMorePiDigits(outcome = "net", r))} :
          poller' = [c EXCEPT !.outcome = OutcomeOf(outcome = "net", r),
                              !.lastOffset = pos]
    /\ UNCHANGED <<object, prefetchVars, loader>>

Next ==
    \/ Start
    \/ InitialDisplay
    \/ CheckScroll
    \/ IntervalTick
    \/ StartTimerFire
    \/ FetchComplete

Spec == Init /\ [][Next]_vars

\* the client when no fetch ever fails
NoFailNext ==
    \/ Start
    \/ InitialDisplay
    \/ CheckScroll
    \/ IntervalTick
    \/ StartTimerFire
    \/ FetchSucceeds

\* no fetch fails, every callback that is due runs, and demand signals
\* keep coming (the interval ticks too, but whether a tick drains depends
\* on the height of the page, so no drain by a tick is assumed)
DemandSpec ==
    /\ Init /\ [][NoFailNext]_vars
    /\ WF_vars(Start)
    /\ WF_vars(InitialDisplay)
    /\ WF_vars(StartTimerFire)
    /\ WF_vars(FetchSucceeds)
    /\ WF_vars(Demand)

\* the range service alone, under the requests of arbitrary HTTP clients
ServerNext ==
    \/ Request

ServerSpec == Init /\ [][ServerNext]_vars

\* the event loop runs every callback that is due: timers fire and
\* fetches come back. Scroll events depend on the user, and a tick of the
\* interval changes the state only when the page is short, which depends
\* on the layout: on a tall page the client may stay as it is for ever,
\* so neither is assumed to act
FairSpec ==
    /\ Spec
    /\ WF_vars(Start)
    /\ WF_vars(InitialDisplay)
    /\ WF_vars(StartTimerFire)
    /\ WF_vars(FetchComplete)

\* the appendDigits client alone
PollNext ==
    \/ PageLoad
    \/ PollTimerFire
    \/ PollFetchComplete

\* the event loop runs every timer that is due. A page is served when a
\* user asks for one, and the fetch of line 136 has no timeout: a request
\* may stay without an answer for ever, so neither is assumed to happen
PollSpec ==
    /\ Init /\ [][PollNext]_vars
    /\ WF_vars(PollTimerFire)

\* the two serialized clients, each on its own page
SerialNext ==
    \/ LoaderStart
    \/ LoaderScroll
    \/ LoaderTick
    \/ LoaderFetchComplete
    \/ PageLoad
    \/ PollTimerFire
    \/ PollFetchComplete

SerialSpec == Init /\ [][SerialNext]_vars

\* ------------------------------------------------------------------------
\* Properties
\* ------------------------------------------------------------------------

\* everything drained so far, in drain order: the text after the initial "3."
Drained == SubSeq(textContent, 3, Len(textContent))

\* the fetch tasks in flight
InFlight ==
    {<<b, k>> \in (1..Len(batches)) \X (1..prefetchThreshold) :
        batches[b][k].res = Pending}

\* this step issues fetch tasks (only startPrefetching adds a batch)
Issues == Len(batches') > Len(batches)

\* C1: the concatenation of everything drained so far is exactly the stored
\* sequence from offset 1 on, with no gap, duplicate or reordering, for
\* every completion order of the concurrent fetches.
C1_DrainedIsStoredPrefix ==
    /\ Len(Drained) <= Max(Len(object.text) - 1, 0)
    /\ \A i \in 1..Len(Drained) : Drained[i] = object.text[i + 1]

\* C2: currentPosition <= nextFetchPosition in every reachable state,
\* also when a drain runs while part of a batch is still in flight.
C2_ConsumedAtMostFetched == currentPosition <= nextFetchPosition

\* C3: a read of the existing object at start >= its length succeeds with
\* status 200 and an empty body; it is not answered 404.
C3_ReadPastEndIsEmpty200 ==
    (resp.served /\ object.present /\ ~resp.ioError /\ resp.start >= Len(object.text))
        => (resp.status = 200 /\ resp.body = <<>>)

\* C4: once a fetch task has returned fewer bytes than requested or none
\* because the end of the stored sequence was reached, no step issues a
\* fetch task any more.
C4_NoFetchAfterEnd == [][endSeen => ~Issues]_vars

\* C5: once a fetch task was answered 404 because the object is absent,
\* no step issues a fetch task any more.
C5_NoFetchAfterNotFound == [][notFoundSeen => ~Issues]_vars

\* the buffer is below the low-water mark, nothing is in flight and the
\* stream has neither ended nor failed
LowAndIdle ==
    /\ started
    /\ 2 * Len(prefetchedDigits) < chunkSize * prefetchThreshold
    /\ InFlight = {}
    /\ hasMoreDigits /\ ~endSeen /\ ~notFoundSeen

\* a batch is scheduled or running
Scheduled == startTimer > 0 \/ InFlight # {}

\* C6: whenever the buffer is below the low-water mark with no fetch in
\* flight and the stream neither ended nor failed, new fetch tasks are
\* eventually scheduled.
C6_LowBufferRefills == LowAndIdle ~> Scheduled

\* C7: no two fetch tasks are ever issued for overlapping byte ranges.
C7_NoOverlappingTasks == reissued = {}

\* C8: at most prefetchThreshold fetch tasks are in flight, and no batch
\* starts while an earlier one still has a fetch in flight.
C8_InFlightBounded ==
    /\ Cardinality(InFlight) <= prefetchThreshold
    /\ Len(batches) <= 1

\* a second batch is in flight after digits were fetched and drained
C8_Witness ==
    /\ Cardinality(InFlight) = prefetchThreshold
    /\ nextFetchPosition > 1
    /\ currentPosition > 1

\* the positions a fetch task can be issued for
Positions == 1..(MaxFileLen + chunkSize * prefetchThreshold)

\* C9: a fetch task that failed transiently is retried: its position is
\* eventually requested again.
C9_FailedTaskRetried ==
    \A p \in Positions : (p \in unretried) ~> (p \notin unretried)

\* C10: no step decreases currentPosition or nextFetchPosition.
C10_PositionsMonotone ==
    [][currentPosition' >= currentPosition /\ nextFetchPosition' >= nextFetchPosition]_vars

\* both positions have advanced
C10_Witness == currentPosition > 1 /\ nextFetchPosition > 1

\* this step is a drain that rendered something, or the initial display
\* called with a non-empty buffer
DrainStep ==
    \/ textContent' # textContent
    \/ initialTimer /\ ~initialTimer' /\ Len(prefetchedDigits) > 0

\* C11: a drain with a non-empty buffer removes exactly
\* n = min(chunkSize, buffer length) characters from the front of the
\* buffer, appends exactly those to the rendered text, advances
\* currentPosition by n and leaves the rest of the buffer in its order.
C11_DrainTakesFront ==
    [][DrainStep =>
        LET n == Min(chunkSize, Len(prefetchedDigits))
        IN  /\ n > 0
            /\ textContent' = textContent \o SubSeq(prefetchedDigits, 1, n)
            /\ prefetchedDigits' = SubSeq(prefetchedDigits, n + 1, Len(prefetchedDigits))
            /\ currentPosition' = currentPosition + n]_vars

\* drains took a full chunk and a shorter one, and the buffer holds more
C11_Witness ==
    /\ Len(Drained) > chunkSize
    /\ Len(Drained) % chunkSize # 0
    /\ Len(prefetchedDigits) > 0

\* the parameter is absent or a decimal integer
WellFormed(q) == q.kind \in {"missing", "empty", "num"}

\* the last request is a valid range read: well-formed parameters with
\* start >= 0 and 0 < length <= MAX_RANGE
ValidRequest ==
    /\ resp.served
    /\ WellFormed(resp.startQ) /\ WellFormed(resp.lengthQ)
    /\ resp.start >= 0
    /\ 0 < resp.length /\ resp.length <= MAX_RANGE

\* the characters of the stored file at offsets [start, min(start+length, its length))
StoredRange(start, length) ==
    SubSeq(object.text, start + 1, Min(start + length, Len(object.text)))

\* C12: with the object present, the body returned for a valid
\* (start, length) is exactly the stored characters at
\* [start, min(start+length, objectLength)).
C12_BodyIsStoredRange ==
    (ValidRequest /\ object.present /\ ~resp.ioError)
        => resp.body = StoredRange(resp.start, resp.length)

\* C13: a request with start < 0, a non-numeric start or length, or
\* length > MAX_RANGE is answered 400 and the store is not accessed.
C13_MalformedRejected ==
    (/\ resp.served
     /\ \/ ~WellFormed(resp.startQ)
        \/ ~WellFormed(resp.lengthQ)
        \/ resp.start < 0
        \/ resp.length > MAX_RANGE)
        => (resp.status = 400 /\ resp.storeReads = 0)

\* C14: a request whose length is not positive is answered 400 before
\* any access to the store.
C14_NonPositiveLengthRejected ==
    (resp.served /\ WellFormed(resp.lengthQ) /\ resp.length <= 0)
        => (resp.status = 400 /\ resp.storeReads = 0)

\* C15: the response to a request whose store read threw differs from the
\* response the same request gets when the object is absent.
C15_StoreErrorDistinct ==
    (resp.served /\ object.present /\ resp.ioError /\ resp.storeReads > 0)
        => LET absent == PiHandler(Absent, FALSE, resp.startQ, resp.lengthQ)
           IN  <<resp.status, resp.body>> # <<absent.status, absent.body>>

\* C16: a request that passes validation reads the store exactly once, for
\* the range [start, start + min(length, MAX_RANGE)), hence for at most
\* MAX_RANGE bytes.
C16_OneBoundedRead ==
    (resp.served /\ resp.status # 400)
        => /\ resp.reads = <<[offset |-> resp.start,
                               length |-> Min(resp.length, MAX_RANGE)]>>
           /\ resp.reads[1].length <= MAX_RANGE

\* a request for MAX_RANGE bytes was served from the store
C16_Witness ==
    resp.served /\ resp.status = 200 /\ resp.length = MAX_RANGE /\ resp.start > 0

\* C17: a valid request made while the object is absent is answered 404.
C17_AbsentObjectIs404 ==
    (ValidRequest /\ ~object.present) => resp.status = 404

\* a valid request was served, without a store error, with no object
C17_Witness ==
    ValidRequest /\ ~object.present /\ ~resp.ioError /\ resp.status = 404

\* C19: a drain called with an empty buffer leaves currentPosition,
\* nextFetchPosition, the buffer, the rendered text and the fetches in
\* flight unchanged.
C19_EmptyDrainChangesNothing ==
    [][(initialTimer /\ ~initialTimer' /\ Len(prefetchedDigits) = 0) =>
        UNCHANGED <<currentPosition, nextFetchPosition, prefetchedDigits,
                    textContent, batches>>]_vars

\* the initial display ran on an empty buffer while fetches were in flight
C19_Witness ==
    /\ started /\ ~initialTimer
    /\ textContent = <<"3", ".">>
    /\ InFlight # {}

\* C20: if the object exists, no fetch fails and demand signals keep
\* occurring, every stored character from offset 1 on is eventually
\* rendered: currentPosition reaches the length of the sequence.
C20_AllDigitsRendered ==
    object.present => <>(currentPosition >= Len(object.text))

\* no fetch of any batch is in flight and every batch callback has run
Quiescent == batches = <<>>

\* C21: at every quiescent point (no fetch in flight, the batch callback
\* has run) the buffer holds exactly nextFetchPosition - currentPosition
\* digits, however drains and completions interleaved and whether or not
\* fetches failed
C21_BufferMatchesCursors ==
    Quiescent => Len(prefetchedDigits) = nextFetchPosition - currentPosition

\* a quiescent point after a failed fetch and a drain, with digits buffered
C21_Witness ==
    /\ started /\ Quiescent
    /\ unretried # {}
    /\ currentPosition > 1
    /\ Len(prefetchedDigits) > 0

\* C22: when the stored sequence has at least one character,
\* nextFetchPosition never exceeds its length
C22_FetchPositionWithinObject ==
    (object.present /\ Len(object.text) >= 1)
        => nextFetchPosition <= Len(object.text)

\* nextFetchPosition was advanced up to the very end of the stored sequence
C22_Witness ==
    /\ object.present /\ Quiescent
    /\ nextFetchPosition > 1
    /\ nextFetchPosition = Len(object.text)

\* the characters at offsets from .. to-1 of the stored sequence
StoredBetween(from, to) ==
    IF to <= from THEN <<>> ELSE SubSeq(object.text, from + 1, to)

\* the text without the separators formatDigits puts in
Unspaced(text) == SelectSeq(text, LAMBDA ch : ch # " ")

\* what the appendDigits client added to the page it was served
Appended == SubSeq(poller.textContent, poller.start + 1, Len(poller.textContent))

\* at most one request of each client is in flight
OneFetchAtATime == Len(loader.fetches) <= 1 /\ Len(poller.fetches) <= 1

\* a step in which a request came back leaves isLoading false
ResetsIsLoading ==
    /\ Len(loader'.fetches) < Len(loader.fetches) => ~loader'.isLoading
    /\ Len(poller'.fetches) < Len(poller.fetches) => ~poller'.isLoading

\* C23 as stated: in both serialized clients at most one fetch is in
\* flight, isLoading is false after every fetch outcome, and the text
\* each client rendered is exactly the stored sequence from its starting
\* offset up to currentPosition
C23_RenderedExactlyStored ==
    /\ []OneFetchAtATime
    /\ [][ResetsIsLoading]_vars
    /\ [](/\ loader.innerHTML = StoredBetween(1, loader.currentPosition)
          /\ Appended = StoredBetween(poller.start, poller.currentPosition))

\* C23 amended: in both serialized clients at most one fetch is in
\* flight, isLoading is false after every fetch outcome, the text
\* appendDigits rendered is exactly the stored sequence from its starting
\* offset up to currentPosition, and the text loadMoreDigits rendered is
\* that sequence once the spaces formatDigits inserted are taken out
C23_RenderedStoredInGroups ==
    /\ []OneFetchAtATime
    /\ [][ResetsIsLoading]_vars
    /\ [](/\ Unspaced(loader.innerHTML) = StoredBetween(1, loader.currentPosition)
          /\ Appended = StoredBetween(poller.start, poller.currentPosition))

\* both clients rendered digits, loadMoreDigits with a separator, and the
\* last request of appendDigits failed
C23_Witness ==
    /\ ~loader.isLoading /\ loader.currentPosition > 1
    /\ \E i \in 1..Len(loader.innerHTML) : loader.innerHTML[i] = " "
    /\ ~poller.isLoading /\ poller.currentPosition > poller.start
    /\ poller.outcome = "error"

\* a request of appendDigits came back without digits
FailedOrEmpty ==
    /\ Len(poller'.fetches) < Len(poller.fetches)
    /\ poller'.outcome \in {"error", "empty"}

\* appendDigits issues a request after one that came back without digits
Retries ==
    /\ Len(poller'.fetches) > Len(poller.fetches)
    /\ poller.outcome \in {"error", "empty"}

\* C24: a failed or empty fetch of appendDigits leaves currentPosition and
\* the rendered text unchanged and schedules exactly one timer, of 3000 ms,
\* whose request is for the same offset; while the script runs, exactly one
\* of a pending timer and an in-flight fetch exists; and the polling never
\* ends: a timer is pending again and again, and a request is in flight
\* again and again, without bound
C24_PollingChain ==
    /\ [][FailedOrEmpty => /\ poller'.currentPosition = poller.currentPosition
                           /\ poller'.textContent = poller.textContent
                           /\ poller'.timers = Append(poller.timers, retryDelay)]_vars
    /\ [][Retries => poller'.fetches = <<poller.lastOffset>>]_vars
    /\ [](poller.running => Len(poller.timers) + Len(poller.fetches) = 1)
    /\ (poller.running ~> (poller.timers # <<>>))
    /\ (poller.running ~> (poller.fetches # <<>>))

====
